---- MODULE Spec2Model ----
(***************************************************************************)
(* Location / region resolution pipeline of the Climate Hazard Explorer:   *)
(* api/thinkhazard.py (administrative directory, find_division),           *)
(* api/iso_map.py (fuzzy_match_region), api/cie.py (get_cie_band) and the  *)
(* page-level workflows of pages/2_Hazard Levels.py and                    *)
(* pages/3_Comparison_Tool.py (resolve_cie_region_code, load_cie).         *)
(*                                                                         *)
(* Strings are sequences of one-character tokens.  A precomposed accented  *)
(* letter is written with a trailing apostrophe ("e'" is e-acute) and a    *)
(* non-ASCII letter without canonical decomposition with a trailing slash  *)
(* ("o/" is o-slash).                                                      *)
(***************************************************************************)
EXTENDS Integers, Sequences, FiniteSets, TLC

VARIABLES
    adm0, adm1, adm2,   \* remote ADM0/ADM1/ADM2 tables (thinkhazard.py:10-12)
    admCached,          \* st.cache_data holds the result of load_admin_data
    fdOut,              \* outcome of the last find_division call
    cmpOut,             \* outcome of the Comparison Tool's resolve_location
    isoTable,           \* the ISO-3166-2 entries load_iso3166_2 returns
    ratio,              \* fuzz.token_sort_ratio(q, text) per comparison text
    fzOut,              \* arguments and result of the last fuzzy_match_region
    bandOut,            \* response and result of the last get_cie_band
    resOut,             \* row, page and result of resolve_cie_region_code
    ciePage, cieInfo,   \* load_cie: the page it runs on and its region_info
    cieCands,           \* load_cie: the candidate cascade
    cieTried,           \* load_cie: tried
    cieIdx,             \* load_cie: position of the loop in the cascade
    ciePc,              \* load_cie: "idle", "loop", "done" or "raised"
    cieRet,             \* load_cie: the returned (series, chosen candidate)
    cieSent,            \* region parameters sent to the time-series provider
    cieGot,             \* whether the frame of each query was empty
    cieLast,            \* the provider answer handled by the last step
    selectedRow,        \* st.session_state["selected_row"], <<>> if not set
    clickedContinue,    \* st.session_state["clicked_continue"] is set
    lsOut,              \* what the last run of the Location Search page did
    hzSession,          \* the Hazard Levels page's keys of st.session_state:
                        \* selected_hazard, climate_scenario,
                        \* _prev_climate_scenario, climate_data
    hzOut               \* what the last run of the Hazard Levels page did

dirVars == <<adm0, adm1, adm2, admCached>>
findVars == <<fdOut, cmpOut>>
isoVars == <<isoTable, ratio>>
cieVars == <<ciePage, cieInfo, cieCands, cieTried, cieIdx, ciePc, cieRet,
             cieSent, cieGot, cieLast>>
searchVars == <<selectedRow, clickedContinue, lsOut>>
hazVars == <<hzSession, hzOut>>
pageVars == <<searchVars, hazVars>>
vars == <<dirVars, findVars, isoVars, fzOut, bandOut, resOut, cieVars, pageVars>>

(***************************************************************************)
(* Characters                                                              *)
(***************************************************************************)
LowerLetters ==
    <<"a","b","c","d","e","f","g","h","i","j","k","l","m",
      "n","o","p","q","r","s","t","u","v","w","x","y","z">>

UpperLetters ==
    <<"A","B","C","D","E","F","G","H","I","J","K","L","M",
      "N","O","P","Q","R","S","T","U","V","W","X","Y","Z">>

Digits == {"0","1","2","3","4","5","6","7","8","9"}

Range(s) == {s[i] : i \in DOMAIN s}

Letters == Range(LowerLetters) \cup Range(UpperLetters)

\* str.lower() per character
LowerMap ==
    [ch \in Letters \cup {"e'", "E'", "o/", "O/"} |->
        IF ch \in Range(UpperLetters)
        THEN LowerLetters[CHOOSE i \in 1..26 : UpperLetters[i] = ch]
        ELSE IF ch = "E'" THEN "e'"
        ELSE IF ch = "O/" THEN "o/"
        ELSE ch]

\* str.upper() per character
UpperMap ==
    [ch \in Letters \cup {"e'", "E'", "o/", "O/"} |->
        IF ch \in Range(LowerLetters)
        THEN UpperLetters[CHOOSE i \in 1..26 : LowerLetters[i] = ch]
        ELSE IF ch = "e'" THEN "E'"
        ELSE IF ch = "o/" THEN "O/"
        ELSE ch]

\* str.isalpha() on one character
IsAlpha(ch) == ch \in DOMAIN LowerMap

LowerCh(ch) == IF IsAlpha(ch) THEN LowerMap[ch] ELSE ch

UpperCh(ch) == IF IsAlpha(ch) THEN UpperMap[ch] ELSE ch

IsAscii(ch) == ch \notin {"e'", "E'", "o/", "O/"}

MapSeq(s, F(_)) == [i \in DOMAIN s |-> F(s[i])]

Lower(s) == MapSeq(s, LowerCh)

Upper(s) == MapSeq(s, UpperCh)

RECURSIVE Flatten(_)
Flatten(ss) == IF ss = <<>> THEN <<>> ELSE Head(ss) \o Flatten(Tail(ss))

RECURSIVE LStrip(_)
LStrip(s) == IF s # <<>> /\ Head(s) = " " THEN LStrip(Tail(s)) ELSE s

RECURSIVE RStrip(_)
RStrip(s) ==
    IF s # <<>> /\ s[Len(s)] = " " THEN RStrip(SubSeq(s, 1, Len(s) - 1)) ELSE s

\* str.strip()
Strip(s) == RStrip(LStrip(s))

\* s1 in s2 (substring)
Contains(s, sub) ==
    \E i \in 1..(Len(s) - Len(sub) + 1) : SubSeq(s, i, i + Len(sub) - 1) = sub

\* Series.str.contains(pat) with its default regex=True, re.search(pat, s),
\* for a pattern of ordinary characters and ".", which stands for any one
\* character
StrContains(s, pat) ==
    \E i \in 1..(Len(s) - Len(pat) + 1) :
        \A j \in DOMAIN pat : pat[j] = "." \/ s[i + j - 1] = pat[j]

\* s.startswith(p)
StartsWith(s, p) == Len(p) <= Len(s) /\ SubSeq(s, 1, Len(p)) = p

\* a pandas NaN / Python None in a name or code column
NaN == <<"#NaN">>

(***************************************************************************)
(* api/thinkhazard.py                                                      *)
(***************************************************************************)
\* unicodedata.normalize("NFKD", ch).encode("ascii", "ignore"): an accented
\* letter keeps its base letter, any other non-ASCII character is dropped
NfkdAscii(ch) ==
    IF ch = "e'" THEN <<"e">>
    ELSE IF ch = "E'" THEN <<"E">>
    ELSE IF IsAscii(ch) THEN <<ch>>
    ELSE <<>>

\* thinkhazard._norm
Norm(s) ==
    IF s = NaN THEN <<>>
    ELSE Lower(Strip(Flatten(MapSeq(s, NfkdAscii))))

\* a key that the row dictionary does not have (dict.get gives None)
Absent == <<"#absent">>

IsStr(v) == v # NaN /\ v # Absent

\* the name column of a table: ADM2_NAME, ADM1_NAME or ADM0_NAME
NameCol(row, level) ==
    IF level = "ADM2" THEN row.ADM2_NAME
    ELSE IF level = "ADM1" THEN row.ADM1_NAME
    ELSE row.ADM0_NAME

\* thinkhazard._search_level: the rows of df whose normalised name equals
\* query_norm (exact) or is matched by it as a pattern (not exact), each
\* tagged with its level
SearchLevel(df, level, query_norm, exact) ==
    LET Hit(row) ==
            IF exact THEN Norm(NameCol(row, level)) = query_norm
            ELSE StrContains(Norm(NameCol(row, level)), query_norm)
        hit == SelectSeq(df, Hit)
    IN  [i \in DOMAIN hit |-> [hit[i] EXCEPT !.level = level]]

\* the levels walked broadest first
LevelOrderBroadFirst(a0, a1, a2) ==
    << <<a0, "ADM0">>, <<a1, "ADM1">>, <<a2, "ADM2">> >>

\* the (table, level) pairs in the order find_division walks them
LevelOrder(a0, a1, a2) ==
    << <<a2, "ADM2">>, <<a1, "ADM1">>, <<a0, "ADM0">> >>

\* one pass of find_division over the levels: the first non-empty hit
RECURSIVE FirstHit(_, _, _)
FirstHit(levels, q, exact) ==
    IF levels = <<>> THEN <<>>
    ELSE LET hit == SearchLevel(Head(levels)[1], Head(levels)[2], q, exact)
         IN  IF hit # <<>> THEN hit ELSE FirstHit(Tail(levels), q, exact)

\* thinkhazard.find_division on loaded tables
FindDivision(name, a0, a1, a2) ==
    LET q == Norm(name)
        exactHit == FirstHit(LevelOrder(a0, a1, a2), q, TRUE)
    IN  IF exactHit # <<>> THEN exactHit
        ELSE FirstHit(LevelOrder(a0, a1, a2), q, FALSE)

\* str(v) for a string, None or NaN
PyStr(v) ==
    IF v = Absent THEN <<"N","o","n","e">>
    ELSE IF v = NaN THEN <<"n","a","n">>
    ELSE v

\* bool(v): None and "" are false, NaN is true
Truthy(v) == v # Absent /\ v # <<>>

\* thinkhazard.adm0_iso3_by_name: ISO3 of the first country whose name
\* equals adm0_name case-insensitively, None (Absent) when there is none
Adm0Iso3ByName(adm0_name, a0) ==
    LET hit == SelectSeq(a0, LAMBDA r : IsStr(r.ADM0_NAME)
                                        /\ Lower(r.ADM0_NAME) = Lower(PyStr(adm0_name)))
    IN  IF hit = <<>> THEN Absent ELSE hit[1].ISO3166_a3

\* thinkhazard.adm0_iso2_by_iso3: ISO2 of the first country with that ISO3
Adm0Iso2ByIso3(iso3, a0) ==
    LET hit == SelectSeq(a0, LAMBDA r : IsStr(r.ISO3166_a3)
                                        /\ Upper(r.ISO3166_a3) = Upper(PyStr(iso3)))
    IN  IF hit = <<>> THEN Absent ELSE hit[1].ISO3166_a2

\* fuzzy_match_region's default threshold, and the one the pages pass
DefaultThreshold == 85
ResolveThreshold == 80

(***************************************************************************)
(* api/iso_map.py                                                          *)
(***************************************************************************)
\* NFKD followed by dropping the combining marks: an accented letter keeps
\* its base letter, every other character stays
NfkdNoMarks(ch) ==
    IF ch = "e'" THEN "e"
    ELSE IF ch = "E'" THEN "E"
    ELSE ch

\* iso_map._norm
IsoNorm(s) ==
    IF ~IsStr(s) THEN <<>>
    ELSE Strip(Lower(MapSeq(s, NfkdNoMarks)))

\* iso_map.filter_country_entries: the entries whose code starts with
\* "<iso2>-"; a missing iso2 formats as "None-"/"nan-" and matches nothing
FilterCountryEntries(iso2, entries) ==
    IF ~IsStr(iso2) THEN <<>>
    ELSE SelectSeq(entries, LAMBDA e : StartsWith(e.code, iso2 \o <<"-">>))

\* name followed by " " + value for every translation value
RECURSIVE JoinAlias(_, _)
JoinAlias(nm, vals) ==
    IF vals = <<>> THEN nm
    ELSE JoinAlias(nm \o <<" ">> \o Head(vals), Tail(vals))

\* the codes of the entries in first-occurrence order (keys of the dict)
RECURSIVE DictKeys(_, _)
DictKeys(entries, seen) ==
    IF entries = <<>> THEN <<>>
    ELSE IF Head(entries).code \in seen THEN DictKeys(Tail(entries), seen)
    ELSE <<Head(entries).code>> \o DictKeys(Tail(entries), seen \cup {Head(entries).code})

\* aliases[code]: the name of the last entry with that code, then the
\* translation values of every entry with that code, in entry order
AliasOf(code, entries) ==
    LET mine == SelectSeq(entries, LAMBDA e : e.code = code)
    IN  JoinAlias(mine[Len(mine)].name,
                  Flatten([i \in DOMAIN mine |-> mine[i].translations]))

\* the keyword bonus of _bias for the alias text nm
Bonus(nm) ==
    LET nm_l == Lower(nm)
        generic == \E k \in {<<"r","e","g","i","o","n">>,
                             <<"p","r","o","v","i","n","c","e">>,
                             <<"s","t","a","t","e">>,
                             <<"g","o","v","e","r","n","o","r","a","t","e">>,
                             <<"m","e","t","r","o","p","o","l","i","t","a","n">>} :
                       Contains(nm_l, k)
        finer == \E k \in {<<"d","i","s","t","r","i","c","t">>,
                           <<"c","o","u","n","t","y">>,
                           <<"m","u","n","i","c","i","p","a","l","i","t","y">>} :
                     Contains(nm_l, k)
    IN  (IF generic THEN 5 ELSE 0) - (IF finer THEN 5 ELSE 0)

\* an insertion that puts x before the entries of equal score
RECURSIVE InsertDescBeforeEqual(_, _)
InsertDescBeforeEqual(x, sorted) ==
    IF sorted = <<>> THEN <<x>>
    ELSE IF Head(sorted).score > x.score
         THEN <<Head(sorted)>> \o InsertDescBeforeEqual(x, Tail(sorted))
         ELSE <<x>> \o sorted

\* list.sort(key=score, reverse=True): stable insertion by descending score
RECURSIVE InsertDesc(_, _)
InsertDesc(x, sorted) ==
    IF sorted = <<>> THEN <<x>>
    ELSE IF Head(sorted).score >= x.score
         THEN <<Head(sorted)>> \o InsertDesc(x, Tail(sorted))
         ELSE <<x>> \o sorted

RECURSIVE SortDesc(_)
SortDesc(s) ==
    IF s = <<>> THEN <<>>
    ELSE LET rest == SortDesc(SubSeq(s, 1, Len(s) - 1))
         IN  InsertDesc(s[Len(s)], rest)

\* the scored list of fuzzy_match_region before the fallback: sim[t] is
\* fuzz.token_sort_ratio(q, t) for the comparison text t.  A candidate is
\* kept on its raw score; the bias is added afterwards and only orders
Scored(entries, sim, threshold) ==
    LET keys == DictKeys(entries, {})
        cand(code) ==
            LET nm == AliasOf(code, entries)
            IN  [code |-> code, name |-> Strip(nm), score |-> sim[IsoNorm(nm)]]
        all == [i \in DOMAIN keys |-> cand(keys[i])]
        kept == SelectSeq(all, LAMBDA c : c.score >= threshold)
        biased == [i \in DOMAIN kept |->
                      [kept[i] EXCEPT !.score = kept[i].score + Bonus(kept[i].name)]]
    IN  SortDesc(biased)

\* the fallback ranking: every entry scored on its primary name alone
Rough(entries, sim) ==
    SortDesc([i \in DOMAIN entries |->
                 [code |-> entries[i].code, name |-> entries[i].name,
                  score |-> sim[IsoNorm(entries[i].name)]]])

\* rough[:2]
Top2(rough) == SubSeq(rough, 1, IF Len(rough) < 2 THEN Len(rough) ELSE 2)

\* rough[:3]
Top3(rough) == SubSeq(rough, 1, IF Len(rough) < 3 THEN Len(rough) ELSE 3)

\* iso_map.fuzzy_match_region
FuzzyMatchRegion(name, country_iso2, threshold, table, sim) ==
    LET entries == FilterCountryEntries(country_iso2, table)
        q == IsoNorm(name)
        scored == Scored(entries, sim, threshold)
    IN  IF q = <<>> \/ entries = <<>> THEN <<>>
        ELSE IF scored = <<>> THEN Top3(Rough(entries, sim))
        ELSE scored

(***************************************************************************)
(* api/cie.py                                                              *)
(*                                                                         *)
(* A JSON scalar is [k, v] with k in "num" (a number), "numstr" (a string  *)
(* that float() parses), "str" (any other string), "null" and "absent" (a  *)
(* key the record does not have).  A cell of a DataFrame is <<v>> for the  *)
(* number v and <<>> for NaN.                                              *)
(***************************************************************************)
Missing == <<>>

\* float(v), with np.nan when float() raises
ToFloat(item) == IF item.k \in {"num", "numstr"} THEN <<item.v>> ELSE Missing

\* to_float_list: a value that is not a list gives []
ToFloatList(x) == MapSeq(x, ToFloat)

Max2(a, b) == IF a >= b THEN a ELSE b

\* pad: lst + [np.nan] * (maxlen - len(lst))
Pad(lst, maxlen) == lst \o [i \in 1..(maxlen - Len(lst)) |-> Missing]

\* pd.DataFrame(columns=["year", "lower", "median", "upper"])
EmptyFrame == [year |-> <<>>, lower |-> <<>>, median |-> <<>>, upper |-> <<>>]

FrameLen(df) == Len(df.year)

\* df.empty
IsEmpty(df) == FrameLen(df) = 0

\* the rows of df at the positions idx, in that order
TakeRows(df, idx) ==
    [year   |-> [i \in DOMAIN idx |-> df.year[idx[i]]],
     lower  |-> [i \in DOMAIN idx |-> df.lower[idx[i]]],
     median |-> [i \in DOMAIN idx |-> df.median[idx[i]]],
     upper  |-> [i \in DOMAIN idx |-> df.upper[idx[i]]]]

RECURSIVE KeptPositions(_, _)
KeptPositions(df, i) ==
    IF i > Len(df.median) THEN <<>>
    ELSE (IF df.median[i] = Missing /\ df.lower[i] = Missing /\ df.upper[i] = Missing
          THEN <<>> ELSE <<i>>) \o KeptPositions(df, i + 1)

\* no row dropped
DropNothing(df) == df

\* df.dropna(how="all", subset=["median", "lower", "upper"])
DropAllMissing(df) == TakeRows(df, KeptPositions(df, 1))

\* the order sort_values puts two year cells in: ascending, NaN last
YearLeq(a, b) == b = Missing \/ (a # Missing /\ a[1] <= b[1])

Perms(n) == {p \in [1..n -> 1..n] : \A i, j \in 1..n : i # j => p[i] # p[j]}

\* the row orders df.sort_values("year") may produce: the sort is not
\* stable, so rows with equal years come out in any order
SortOrders(df) ==
    {p \in Perms(FrameLen(df)) :
        \A i \in 1..(FrameLen(df) - 1) : YearLeq(df.year[p[i]], df.year[p[i + 1]])}

\* df.sort_values("year").reset_index(drop=True): every possible outcome
SortByYear(df) == {TakeRows(df, p) : p \in SortOrders(df)}

\* the columnar branch (cie.py:49-71) on the four converted lists
ColumnFrames(years, lower, median, upper) ==
    LET maxlen == Max2(Max2(Len(years), Len(lower)), Max2(Len(median), Len(upper)))
        df == [year |-> Pad(years, maxlen), lower |-> Pad(lower, maxlen),
               median |-> Pad(median, maxlen), upper |-> Pad(upper, maxlen)]
    IN  SortByYear(DropAllMissing(df))

HasKey(data, F(_)) == \E i \in DOMAIN data : F(data[i]).k # "absent"

\* the list-of-records branch (cie.py:73-82): a "time" column is renamed to
\* "year"; with both columns present df.get("year") is a two-column frame
\* and pd.to_numeric raises
RecordFrames(data) ==
    LET hasTime == HasKey(data, LAMBDA r : r.time)
        hasYear == HasKey(data, LAMBDA r : r.year)
        yearOf(r) == IF hasTime THEN r.time ELSE r.year
        df == [year   |-> [i \in DOMAIN data |-> ToFloat(yearOf(data[i]))],
               lower  |-> [i \in DOMAIN data |-> ToFloat(data[i].lower)],
               median |-> [i \in DOMAIN data |-> ToFloat(data[i].median)],
               upper  |-> [i \in DOMAIN data |-> ToFloat(data[i].upper)]]
    IN  IF hasTime /\ hasYear THEN {[kind |-> "raise", df |-> EmptyFrame]}
        ELSE {[kind |-> "df", df |-> d] : d \in SortByYear(DropAllMissing(df))}

\* cie.get_cie_band on the provider's response: the possible outcomes, each
\* a returned frame or an exception leaving the function
GetCieBand(resp) ==
    IF resp.shape = "error" THEN {[kind |-> "df", df |-> EmptyFrame]}
    ELSE IF resp.shape = "dict"
              /\ (resp.year # <<>> \/ resp.lower # <<>>
                  \/ resp.median # <<>> \/ resp.upper # <<>>)
    THEN {[kind |-> "df", df |-> d] :
            d \in ColumnFrames(ToFloatList(resp.year), ToFloatList(resp.lower),
                               ToFloatList(resp.median), ToFloatList(resp.upper))}
    ELSE IF resp.shape = "dict" /\ resp.hasData THEN RecordFrames(resp.data)
    ELSE {[kind |-> "df", df |-> EmptyFrame]}

(***************************************************************************)
(* pages/2_Hazard Levels.py and pages/3_Comparison_Tool.py: region code    *)
(* resolution.  page is "hazard" or "compare".                             *)
(***************************************************************************)
\* s.replace(old, new): every non-overlapping occurrence, left to right
RECURSIVE ReplaceAll(_, _, _)
ReplaceAll(s, old, new) ==
    IF old = <<>> \/ Len(s) < Len(old) THEN s
    ELSE IF SubSeq(s, 1, Len(old)) = old
         THEN new \o ReplaceAll(SubSeq(s, Len(old) + 1, Len(s)), old, new)
         ELSE <<Head(s)>> \o ReplaceAll(Tail(s), old, new)

\* str.isdigit()
IsDigitStr(s) == s # <<>> /\ \A i \in DOMAIN s : s[i] \in Digits

\* "".join(ch for ch in name if ch.isalpha())[:2].upper()
Abbr(name) ==
    LET letters == SelectSeq(name, IsAlpha)
    IN  Upper(SubSeq(letters, 1, IF Len(letters) < 2 THEN Len(letters) ELSE 2))

\* row.get(key, ""): the default for a key the row does not have
GetOrEmpty(v) == IF v = Absent THEN <<>> ELSE v

\* a or b
PyOr(a, b) == IF Truthy(a) THEN a ELSE b

\* the match target: district name, else region name, else country name
BestName(r) ==
    PyStr(PyOr(PyOr(GetOrEmpty(r.ADM2_NAME), GetOrEmpty(r.ADM1_NAME)),
               GetOrEmpty(r.ADM0_NAME)))

\* whether the row's own ISO3166_a3 value is used (hazard: a string that is
\* not blank; compare: any truthy value)
RowHasIso3(r, page) ==
    IF page = "hazard" THEN IsStr(r.ISO3166_a3) /\ Strip(r.ISO3166_a3) # <<>>
    ELSE Truthy(r.ISO3166_a3)

\* the ISO3 code resolve_cie_region_code works with
ResolveIso3(r, page, a0) ==
    IF RowHasIso3(r, page) THEN r.ISO3166_a3
    ELSE Adm0Iso3ByName(GetOrEmpty(r.ADM0_NAME), a0)

\* a fuzzy-matched code whose suffix is never replaced
FromMatchKeepsSuffix(code, iso2, best_name) ==
    ReplaceAll(Upper(code), <<"-">>, <<".">>)

\* a fuzzy-matched code replaced by the abbreviation whatever its suffix
FromMatchAlwaysAbbreviates(code, iso2, best_name) ==
    IF Abbr(best_name) # <<>> THEN PyStr(iso2) \o <<".">> \o Abbr(best_name)
    ELSE ReplaceAll(Upper(code), <<"-">>, <<".">>)

\* the branch for a fuzzy-matched code: hyphens become dots and a purely
\* numeric suffix is replaced by the abbreviation of the match target
FromMatch(code, iso2, best_name) ==
    LET region_code == ReplaceAll(Upper(code), <<"-">>, <<".">>)
        suffix == ReplaceAll(region_code, PyStr(iso2) \o <<".">>, <<>>)
    IN  IF IsDigitStr(suffix) /\ Abbr(best_name) # <<>>
        THEN PyStr(iso2) \o <<".">> \o Abbr(best_name)
        ELSE region_code

\* the branch without a fuzzy match
FromName(iso2, iso3, best_name) ==
    IF Abbr(best_name) # <<>> THEN PyStr(iso2) \o <<".">> \o Abbr(best_name)
    ELSE iso3

\* resolve_cie_region_code from the fuzzy candidates on: the first
\* candidate's code upper-cased, then the matched or the no-match branch
ResolveFromCands(iso3, iso2, best_name, cands) ==
    LET matched == IF cands # <<>> THEN Upper(cands[1].code) ELSE <<>>
    IN  [iso3 |-> iso3,
         code |-> IF matched # <<>> THEN FromMatch(matched, iso2, best_name)
                  ELSE FromName(iso2, iso3, best_name),
         err |-> "none"]

\* resolve_cie_region_code once ISO3 and ISO2 are known: the fuzzy match is
\* asked only for a non-empty match target
ResolveFromIso2(iso3, iso2, best_name, table, sim) ==
    ResolveFromCands(iso3, iso2, best_name,
                     IF best_name # <<>>
                     THEN FuzzyMatchRegion(best_name, iso2, ResolveThreshold, table, sim)
                     ELSE <<>>)

\* resolve_cie_region_code once ISO3 is known. With no ISO3 code it returns
\* iso3 = code = None, and as third value the message "Could not determine
\* ISO3 code." on the hazard page ("iso3_undetermined") and None on the
\* comparison page ("none", as in every other return)
ResolveFromIso3(iso3, best_name, page, a0, table, sim) ==
    IF ~Truthy(iso3)
    THEN [iso3 |-> Absent, code |-> Absent,
          err |-> IF page = "hazard" THEN "iso3_undetermined" ELSE "none"]
    ELSE ResolveFromIso2(iso3, Adm0Iso2ByIso3(iso3, a0), best_name, table, sim)

\* resolve_cie_region_code: [iso3, code, err]
ResolveCieRegionCode(r, page, a0, table, sim) ==
    ResolveFromIso3(ResolveIso3(r, page, a0), BestName(r), page, a0, table, sim)

UpperSet == Range(UpperLetters)

IsAZ(ch) == ch \in UpperSet

\* re.fullmatch(r"[A-Z]{2}\.[A-Z0-9]{1,3}", cand)
IsIsoDotCode(cand) ==
    /\ Len(cand) \in 4..6
    /\ IsAZ(cand[1]) /\ IsAZ(cand[2]) /\ cand[3] = "."
    /\ \A i \in 4..Len(cand) : IsAZ(cand[i]) \/ cand[i] \in Digits

\* re.fullmatch(r"[A-Z]{2}", cand)
IsTwoLetters(cand) == Len(cand) = 2 /\ IsAZ(cand[1]) /\ IsAZ(cand[2])

\* str(v or "")
StrOrEmpty(v) == IF Truthy(v) THEN PyStr(v) ELSE <<>>

\* _normalize_region_code
NormalizeRegionCode(iso2, candidate, fallback_name) ==
    LET i2 == Upper(Strip(StrOrEmpty(iso2)))
        fb == Strip(StrOrEmpty(fallback_name))
        cand == ReplaceAll(Upper(Strip(StrOrEmpty(candidate))), <<"-">>, <<".">>)
    IN  IF Abbr(fb) # <<>> THEN i2 \o <<".">> \o Abbr(fb)
        ELSE IF IsIsoDotCode(cand) THEN cand
        ELSE IF IsTwoLetters(cand) THEN i2 \o <<".">> \o cand
        ELSE i2

\* row.get(key): None for a key the row does not have; a or b or ...
DisplayName(r) ==
    PyOr(PyOr(r.ADM2_NAME, r.ADM1_NAME), PyOr(r.ADM0_NAME, <<>>))

\* build_region_info's return value
BuildFromCode(r, page, res, iso2, code) ==
    [code |-> IF page = "hazard" THEN PyOr(code, <<>>) ELSE code,
     country |-> iso2,
     country_iso3 |-> IF page = "hazard" THEN PyOr(res.iso3, iso2) ELSE res.iso3,
     name |-> DisplayName(r)]

\* build_region_info once ISO2 is known: a code that is not the ISO3 code is
\* normalised
BuildFromIso2(r, page, res, iso2) ==
    BuildFromCode(r, page, res, iso2,
                  IF Truthy(res.code) /\ res.code # res.iso3
                  THEN NormalizeRegionCode(iso2, res.code,
                                           PyOr(PyOr(r.ADM1_NAME, r.ADM2_NAME), <<>>))
                  ELSE res.code)

\* build_region_info after its call of resolve_cie_region_code
BuildFromResolved(r, page, a0, res) ==
    BuildFromIso2(r, page, res,
                  IF page = "hazard" /\ ~Truthy(res.iso3) THEN <<>>
                  ELSE Adm0Iso2ByIso3(res.iso3, a0))

\* build_region_info: the RegionInfo dictionary of a row
BuildRegionInfo(r, page, a0, table, sim) ==
    BuildFromResolved(r, page, a0, ResolveCieRegionCode(r, page, a0, table, sim))

(***************************************************************************)
(* load_cie: the candidate cascade and the fetch with fallback             *)
(***************************************************************************)
\* dict.fromkeys / the seen-set loop: first occurrences, order kept
RECURSIVE Dedupe(_, _)
Dedupe(s, seen) ==
    IF s = <<>> THEN <<>>
    ELSE IF Head(s) \in seen THEN Dedupe(Tail(s), seen)
    ELSE <<Head(s)>> \o Dedupe(Tail(s), seen \cup {Head(s)})

\* fetch_cie_shape_codes on the region-code strings found in the shape
\* provider's answer: upper-cased, duplicates dropped; [] for no ISO3 (hazard)
FetchCieShapeCodes(iso3, found, page) ==
    IF page = "hazard" /\ ~Truthy(iso3) THEN <<>>
    ELSE Dedupe(MapSeq(found, Upper), {})

IndexOfCh(s, ch) ==
    IF \E i \in DOMAIN s : s[i] = ch
    THEN CHOOSE i \in DOMAIN s : s[i] = ch /\ \A j \in 1..(i - 1) : s[j] # ch
    ELSE 0

\* hazard: region_code.split("-", 1)[1]; compare: region_code.split("-")[1]
AfterHyphen(code, page) ==
    LET rest == SubSeq(code, IndexOfCh(code, "-") + 1, Len(code))
        nxt == IndexOfCh(rest, "-")
    IN  IF page = "hazard" \/ nxt = 0 THEN rest ELSE SubSeq(rest, 1, nxt - 1)

\* an abbreviation of one letter
AbbrevOneLetter(name) ==
    LET letters == Upper(SelectSeq(name, IsAlpha))
    IN  SubSeq(letters, 1, IF Len(letters) < 1 THEN Len(letters) ELSE 1)

\* "".join(ch for ch in name if ch.isalpha()).upper()[:2]
Abbrev(name) ==
    LET letters == Upper(SelectSeq(name, IsAlpha))
    IN  SubSeq(letters, 1, IF Len(letters) < 2 THEN Len(letters) ELSE 2)

\* the candidate list before any de-duplication
RawCandidates(info, shapes, page) ==
    LET region_code == IF page = "hazard" THEN info.code ELSE PyStr(info.code)
        iso2 == info.country
        iso3 == info.country_iso3
        country == PyOr(iso3, iso2)
        abbrev == Abbrev(info.name)
    IN  (IF Truthy(info.code)
         THEN <<region_code>> \o
              (IF "-" \in Range(region_code)
               THEN <<AfterHyphen(region_code, page),
                      ReplaceAll(region_code, <<"-">>, <<".">>)>>
               ELSE <<>>)
         ELSE <<>>)
        \o (IF Truthy(iso2) /\ abbrev # <<>>
            THEN <<PyStr(iso2) \o <<"-">> \o abbrev, PyStr(iso2) \o <<".">> \o abbrev>>
            ELSE <<>>)
        \o shapes
        \o (IF page = "hazard"
            THEN (IF Truthy(country) THEN <<country>> ELSE <<>>)
                 \o (IF Truthy(iso2) /\ iso2 # iso3 THEN <<iso2>> ELSE <<>>)
            ELSE <<country, iso2>>)
        \o << <<>> >>

\* the cascade load_cie iterates: the hazard page drops duplicates, the
\* comparison page iterates the raw list
Candidates(info, shapes, page) ==
    IF page = "hazard" THEN Dedupe(RawCandidates(info, shapes, page), {})
    ELSE RawCandidates(info, shapes, page)

\* what load_cie appends to tried for a candidate
TriedEntry(cand, page) == IF page = "hazard" THEN cand ELSE PyStr(cand)

\* get_cie_band's region parameter: str(region).replace("-", ".").upper().strip()
RegionNorm(region) == Strip(Upper(ReplaceAll(PyStr(region), <<"-">>, <<".">>)))

\* the try/except around get_cie_band in the loop: an exception leaving
\* get_cie_band becomes an empty frame
TryGetCieBand(out) ==
    IF out.kind = "raise" THEN [raised |-> FALSE, df |-> EmptyFrame]
    ELSE [raised |-> FALSE, df |-> out.df]

\* every answer ends the loop
AcceptsAny(df) == TRUE

\* if df_try is not None and not df_try.empty: return
Accepts(df) == ~IsEmpty(df)

\* is_all_zero (hazard page): some median present and their absolute sum 0
IsAllZero(df) ==
    /\ \E i \in DOMAIN df.median : df.median[i] # Missing
    /\ \A i \in DOMAIN df.median : df.median[i] # Missing => df.median[i][1] = 0

(***************************************************************************)
(* Bounds and input pools                                                  *)
(***************************************************************************)
MaxRows == 2        \* rows per administrative table
MaxLen == 2         \* length of a column / record list in a provider answer

\* sequences of length at most n over S
SeqsUpTo(S, n) == UNION {[1..k -> S] : k \in 0..n}

sPortugal == <<"P","o","r","t","u","g","a","l">>
sNamibia == <<"N","a","m","i","b","i","a">>
sAtlantis == <<"A","t","l","a","n","t","i","s">>
sLisboa == <<"L","i","s","b","o","a">>
sPRT == <<"P","R","T">>
sNAM == <<"N","A","M">>
sPT == <<"P","T">>

\* a row of a table or of a find_division result; a column the table does
\* not have is Absent
Row(level, code, n2, n1, n0, a3, a2) ==
    [level |-> level, code |-> code, ADM2_NAME |-> n2, ADM1_NAME |-> n1,
     ADM0_NAME |-> n0, ISO3166_a3 |-> a3, ISO3166_a2 |-> a2]

\* names of the directory pool: "Né" and "NE" normalise to "ne", which
\* "Ane" contains
sNe == <<"N","e'">>
sNE == <<"N","E">>
sAne == <<"A","n","e">>

CountryRow(i, nm) ==
    Row(Absent, i, Absent, Absent, nm,
        IF nm = sAne THEN <<"A","N","E">> ELSE <<"N","E","R">>,
        IF nm = sAne THEN <<"A","N">> ELSE <<"N","E">>)

RegionRow(i, nm) == Row(Absent, i, Absent, nm, sAne, Absent, Absent)

DistrictRow(i, nm) == Row(Absent, i, nm, sNE, sAne, Absent, Absent)

Tables(Mk(_, _), pool) ==
    {[i \in DOMAIN names |-> Mk(i, names[i])] : names \in SeqsUpTo(pool, MaxRows)}

\* the texts a user types
Queries ==
    {<<"n","e">>, <<" ","N","e'"," ">>, <<"a","n">>, <<"z","z">>, <<"A","N","E">>,
     <<"n",".">>}

\* the fixed ISO table and similarity scores of the directory workflows
DirIsoTable ==
    << [code |-> <<"A","N","-","1">>, name |-> sNE, translations |-> <<>>] >>

DirSim == [t \in {IsoNorm(sNE)} |-> 90]

NoCall == [kind |-> "idle"]

(***************************************************************************)
(* Directory workflows: find_division and the Comparison Tool's            *)
(* resolve_location                                                        *)
(***************************************************************************)
\* load_admin_data under st.cache_data: a cached result is returned as is;
\* otherwise the three tables are fetched, which the network lets succeed
\* (net = "ok", the result is cached) or fail (the exception propagates)
Loaded(net) == admCached \/ net = "ok"

\* find_division(name), including its load_admin_data call
FindDivisionOutcome(name, net) ==
    IF Loaded(net)
    THEN [kind |-> "rows", query |-> name, rows |-> FindDivision(name, adm0, adm1, adm2)]
    ELSE [kind |-> "raise", query |-> name, rows |-> <<>>]

\* a direct call of find_division
FindDivisionCall ==
    \E name \in Queries, net \in {"ok", "fail"} :
        /\ fdOut' = FindDivisionOutcome(name, net)
        /\ cmpOut' = NoCall
        /\ admCached' = Loaded(net)
        /\ UNCHANGED <<pageVars, adm0, adm1, adm2, isoVars, fzOut, bandOut, resOut, cieVars>>

\* resolve_location on the outcome of its find_division call, and the
\* page's report: None (an exception of find_division, or no rows) is
\* reported as "Could not resolve"
ResolveLocation(found) ==
    IF found.kind = "raise" \/ found.rows = <<>>
    THEN [kind |-> "none", report |-> "could_not_resolve", info |-> <<>>]
    ELSE [kind |-> "info", report |-> "comparing",
          info |-> <<BuildRegionInfo(found.rows[1], "compare", adm0, isoTable, ratio)>>]

\* the Comparison Tool resolving one location
ComparisonResolve ==
    \E name \in Queries, net \in {"ok", "fail"} :
        /\ fdOut' = FindDivisionOutcome(name, net)
        /\ cmpOut' = ResolveLocation(FindDivisionOutcome(name, net))
        /\ admCached' = Loaded(net)
        /\ UNCHANGED <<pageVars, adm0, adm1, adm2, isoVars, fzOut, bandOut, resOut, cieVars>>

CieIdle ==
    /\ ciePage = "hazard" /\ cieInfo = <<>> /\ cieCands = <<>> /\ cieTried = <<>>
    /\ cieIdx = 0 /\ ciePc = "idle" /\ cieRet = <<>> /\ cieSent = <<>>
    /\ cieGot = <<>>
    /\ cieLast = <<>>

\* the Hazard Levels page's session keys, none of them set
NoHazardSession ==
    [hazard |-> "unset", scenario |-> "unset", prev |-> "unset", data |-> <<>>]

\* no page has run in the session
PageIdle ==
    /\ selectedRow = <<>> /\ clickedContinue = FALSE /\ lsOut = NoCall
    /\ hzSession = NoHazardSession /\ hzOut = NoCall

InitFind ==
    /\ adm0 \in Tables(CountryRow, {sNE, sAne})
    /\ adm1 \in Tables(RegionRow, {sNE, sAne})
    /\ adm2 \in Tables(DistrictRow, {sNe, sAne})
    /\ admCached = FALSE
    /\ fdOut = NoCall /\ cmpOut = NoCall
    /\ isoTable = DirIsoTable /\ ratio = DirSim
    /\ fzOut = NoCall /\ bandOut = NoCall /\ resOut = NoCall
    /\ CieIdle
    /\ PageIdle

NextFind == FindDivisionCall \/ ComparisonResolve

SpecFind == InitFind /\ [][NextFind]_vars

(***************************************************************************)
(* fuzzy_match_region on its own (SpecFuzzy)                               *)
(***************************************************************************)

IsoEntry(code, name, translations) ==
    [code |-> code, name |-> name, translations |-> translations]

\* the ISO-3166-2 table: four subdivisions of PT (one with a translation,
\* one with a generic and one with a finer-grained keyword, two with
\* numeric codes) and one of AT
WorldIsoTable ==
    << IsoEntry(<<"P","T","-","1","1">>, sLisboa, << <<"L","i","s","b","o","n">> >>),
       IsoEntry(<<"P","T","-","L","X">>, <<"L","x"," ","s","t","a","t","e">>, <<>>),
       IsoEntry(<<"P","T","-","3","0">>, <<"L","i"," ","c","o","u","n","t","y">>, <<>>),
       IsoEntry(<<"P","T","-","F","A">>, <<"F","a","r","o">>, <<>>),
       IsoEntry(<<"A","T","-","9">>, <<"W","i","e","n">>, <<>>) >>

\* the comparison texts token_sort_ratio is asked about for a table
Texts(table) ==
    {IsoNorm(AliasOf(table[i].code, table)) : i \in DOMAIN table}
        \cup {IsoNorm(table[i].name) : i \in DOMAIN table}

\* similarity scores around both thresholds: with the bias of 5 a score
\* may cross a threshold in either direction
Scores == {72, 77, 82, 87}

FuzzyNames == {sLisboa, <<" ", " ">>}

FuzzyCall ==
    /\ fzOut.kind = "idle"
    /\ \E name \in FuzzyNames, iso2 \in {sPT, <<"A","T">>, Absent},
       threshold \in {DefaultThreshold, ResolveThreshold} :
        fzOut' = [kind |-> "done", name |-> name, iso2 |-> iso2,
                  threshold |-> threshold,
                  result |-> FuzzyMatchRegion(name, iso2, threshold, isoTable, ratio)]
    /\ UNCHANGED <<pageVars, dirVars, findVars, isoVars, bandOut, resOut, cieVars>>

DirIdle ==
    /\ adm0 = <<>> /\ adm1 = <<>> /\ adm2 = <<>> /\ admCached = FALSE
    /\ fdOut = NoCall /\ cmpOut = NoCall

InitFuzzy ==
    /\ isoTable = WorldIsoTable
    /\ ratio \in [Texts(WorldIsoTable) -> Scores]
    /\ fzOut = NoCall
    /\ DirIdle /\ bandOut = NoCall /\ resOut = NoCall /\ CieIdle
    /\ PageIdle

NextFuzzy == FuzzyCall

SpecFuzzy == InitFuzzy /\ [][NextFuzzy]_vars

(***************************************************************************)
(* get_cie_band on its own (SpecBand)                                      *)
(***************************************************************************)
Num(v) == [k |-> "num", v |-> v]
NumStr(v) == [k |-> "numstr", v |-> v]
Null == [k |-> "null", v |-> 0]
NoKey == [k |-> "absent", v |-> 0]

\* an answer of the time-series provider: shape "error" (transport failure,
\* HTTP error status, timeout, body that is not JSON), "dict" (a JSON
\* object: its year/lower/median/upper lists, [] for a key that is missing
\* or no list, and its "data" list when hasData) or "other" (any other JSON)
Response(shape, year, lower, median, upper, hasData, data) ==
    [shape |-> shape, year |-> year, lower |-> lower, median |-> median,
     upper |-> upper, hasData |-> hasData, data |-> data]

ErrorResponse == Response("error", <<>>, <<>>, <<>>, <<>>, FALSE, <<>>)

OtherResponse == Response("other", <<>>, <<>>, <<>>, <<>>, FALSE, <<>>)

Record(year, time, lower, median, upper) ==
    [year |-> year, time |-> time, lower |-> lower, median |-> median, upper |-> upper]

RecordPool ==
    {Record(Num(2030), NoKey, Num(1), Num(5), Num(9)),
     Record(NumStr(2020), NoKey, Null, Num(0), NoKey),
     Record(NoKey, Num(2020), NoKey, Num(5), NoKey),
     Record(Num(2020), NoKey, Null, [k |-> "str", v |-> 0], NoKey)}

\* columnar answers, ragged ones included
ColumnResponses ==
    {Response("dict", y, l, m, u, FALSE, <<>>) :
        y \in SeqsUpTo({Num(2030), NumStr(2020), Null}, MaxLen),
        l \in SeqsUpTo({Num(1), Null}, MaxLen),
        m \in SeqsUpTo({Num(0), Num(5), Null}, MaxLen),
        u \in {<<>>, <<Num(9)>>, <<[k |-> "str", v |-> 0]>>}}

RecordResponses ==
    {Response("dict", <<>>, <<>>, <<>>, <<>>, TRUE, d) : d \in SeqsUpTo(RecordPool, MaxLen)}

BandResponses ==
    ColumnResponses \cup RecordResponses \cup {ErrorResponse, OtherResponse}

\* the provider has answered; get_cie_band handles the answer
GetCieBandCall ==
    /\ bandOut.kind = "answered"
    /\ \E out \in GetCieBand(bandOut.resp) :
            bandOut' = [kind |-> out.kind, df |-> out.df, resp |-> bandOut.resp]
    /\ UNCHANGED <<pageVars, dirVars, findVars, isoVars, fzOut, resOut, cieVars>>

InitBand ==
    /\ bandOut \in {[kind |-> "answered", df |-> EmptyFrame, resp |-> r] : r \in BandResponses}
    /\ DirIdle /\ isoTable = <<>> /\ ratio = <<>> /\ fzOut = NoCall
    /\ resOut = NoCall /\ CieIdle
    /\ PageIdle

NextBand == GetCieBandCall

SpecBand == InitBand /\ [][NextBand]_vars

(***************************************************************************)
(* resolve_cie_region_code and build_region_info on their own (SpecResolve)*)
(***************************************************************************)
\* the COUNTRY table: Namibia's ISO2 code "NA" is read by pd.read_csv as NaN
WorldCountries ==
    << Row(Absent, 1, Absent, Absent, sPortugal, sPRT, sPT),
       Row(Absent, 2, Absent, Absent, sNamibia, sNAM, NaN) >>

\* rows as find_division returns them: a district, region or country row of
\* Portugal, Namibia or a country the COUNTRY table does not know, with or
\* without its own ISO3 column, with names that have or lack letters
ResolveRows ==
    {Row(IF n2 # Absent THEN "ADM2" ELSE IF n1 # Absent THEN "ADM1" ELSE "ADM0",
         7, n2, n1, n0, a3, Absent) :
        n2 \in {Absent, sLisboa, <<"1","2">>},
        n1 \in {Absent, <<"L","x">>, <<"7">>},
        n0 \in {sPortugal, sNamibia, sAtlantis},
        a3 \in {Absent, sPRT, <<" ">>}}

\* an ISO-3166-2 table without any subdivision of PT
ForeignIsoTable == SelectSeq(WorldIsoTable, LAMBDA e : ~StartsWith(e.code, sPT))

\* similarity scores on either side of the resolver's threshold
ResolveScores == {72, 87}

Pages == {"hazard", "compare"}

\* a direct call of resolve_cie_region_code
ResolveCall ==
    /\ resOut.kind = "pending"
    /\ resOut' = [kind |-> "resolved", row |-> resOut.row, page |-> resOut.page,
                  res |-> ResolveCieRegionCode(resOut.row, resOut.page, adm0, isoTable, ratio),
                  info |-> <<>>]
    /\ UNCHANGED <<pageVars, dirVars, findVars, isoVars, fzOut, bandOut, cieVars>>

\* a call of build_region_info, which calls resolve_cie_region_code
BuildRegionInfoCall ==
    /\ resOut.kind = "pending"
    /\ resOut' = [kind |-> "built", row |-> resOut.row, page |-> resOut.page,
                  res |-> ResolveCieRegionCode(resOut.row, resOut.page, adm0, isoTable, ratio),
                  info |-> <<BuildRegionInfo(resOut.row, resOut.page, adm0, isoTable, ratio)>>]
    /\ UNCHANGED <<pageVars, dirVars, findVars, isoVars, fzOut, bandOut, cieVars>>

InitResolve ==
    /\ adm0 = WorldCountries /\ adm1 = <<>> /\ adm2 = <<>> /\ admCached = TRUE
    /\ fdOut = NoCall /\ cmpOut = NoCall
    /\ isoTable \in {WorldIsoTable, ForeignIsoTable}
    /\ ratio \in [Texts(WorldIsoTable) -> ResolveScores]
    /\ resOut \in {[kind |-> "pending", row |-> r, page |-> p, res |-> <<>>, info |-> <<>>] :
                     r \in ResolveRows, p \in Pages}
    /\ fzOut = NoCall /\ bandOut = NoCall /\ CieIdle
    /\ PageIdle

NextResolve == ResolveCall \/ BuildRegionInfoCall

SpecResolve == InitResolve /\ [][NextResolve]_vars

(***************************************************************************)
(* load_cie (SpecCie)                                                      *)
(***************************************************************************)
\* answers of the time-series provider to one query of the cascade
DataResponse ==
    Response("dict", <<Num(2020), Num(2030)>>, <<Num(1), Num(1)>>,
             <<Num(5), Num(6)>>, <<Num(9), Num(9)>>, FALSE, <<>>)

ZeroResponse ==
    Response("dict", <<Num(2020), Num(2030)>>, <<Num(0), Num(0)>>,
             <<Num(0), Num(0)>>, <<Num(0), Num(0)>>, FALSE, <<>>)

NullResponse == Response("dict", <<Num(2020)>>, <<Null>>, <<Null>>, <<>>, FALSE, <<>>)

ClashResponse ==
    Response("dict", <<>>, <<>>, <<>>, <<>>, TRUE,
             <<Record(Num(2020), Num(2020), Num(1), Num(5), Num(9))>>)

CascadeResponses ==
    {ErrorResponse, OtherResponse, DataResponse, ZeroResponse, NullResponse, ClashResponse}

\* region-code strings found in the shape provider's answer ([] also stands
\* for a failed request)
ShapeAnswers ==
    {<<>>,
     << <<"P","T",".","L","I">> >>,
     << <<"p","t",".","1","1">>, <<"P","T",".","1","1">>, sPRT >>}

\* RegionInfo dictionaries: those build_region_info produces for the rows
\* above, and some with a hyphenated or missing code
BuiltInfos(page) ==
    {BuildRegionInfo(r, page, WorldCountries, WorldIsoTable, s) :
        r \in ResolveRows, s \in [Texts(WorldIsoTable) -> ResolveScores]}

ExtraInfos ==
    {[code |-> c, country |-> sPT, country_iso3 |-> i3, name |-> sLisboa] :
        c \in {<<"P","T","-","1","1">>, <<"P","T","-","1","1","-","2">>, <<>>},
        i3 \in {sPRT, <<>>}}

\* load_cie up to the loop: the shape codes are fetched and the cascade built
LoadCieStart ==
    /\ ciePc = "idle"
    /\ \E found \in ShapeAnswers :
          cieCands' = Candidates(cieInfo,
                                 FetchCieShapeCodes(cieInfo.country_iso3, found, ciePage),
                                 ciePage)
    /\ cieTried' = <<>> /\ cieSent' = <<>> /\ cieIdx' = 1 /\ ciePc' = "loop"
    /\ cieGot' = <<>>
    /\ cieLast' = <<>> /\ cieRet' = <<>>
    /\ UNCHANGED <<pageVars, ciePage, cieInfo, dirVars, findVars, isoVars, fzOut, bandOut, resOut>>

\* one iteration of the loop: the candidate is recorded in tried, queried,
\* and returned if its frame is accepted
LoadCieQuery ==
    /\ ciePc = "loop" /\ cieIdx <= Len(cieCands)
    /\ LET cand == cieCands[cieIdx]
           tried == Append(cieTried, TriedEntry(cand, ciePage))
       IN  /\ cieTried' = tried
           /\ cieSent' = Append(cieSent, RegionNorm(cand))
           /\ \E resp \in CascadeResponses :
                \E out \in GetCieBand(resp) :
                   LET got == TryGetCieBand(out)
                   IN  /\ cieLast' = <<resp>>
                       /\ cieGot' = Append(cieGot, IsEmpty(got.df))
                       /\ IF got.raised
                          THEN ciePc' = "raised" /\ cieIdx' = cieIdx /\ cieRet' = <<>>
                          ELSE IF Accepts(got.df)
                          THEN /\ ciePc' = "done" /\ cieIdx' = cieIdx
                               /\ cieRet' = <<[df |-> got.df, chosen |-> cand, tried |-> tried]>>
                          ELSE ciePc' = "loop" /\ cieIdx' = cieIdx + 1 /\ cieRet' = <<>>
    /\ UNCHANGED <<pageVars, ciePage, cieInfo, cieCands, dirVars, findVars, isoVars, fzOut, bandOut, resOut>>

\* the return after the loop: an empty frame, and as chosen candidate
\* tried[0] on the hazard page and "" on the comparison page
LoadCieExhausted ==
    /\ ciePc = "loop" /\ cieIdx > Len(cieCands)
    /\ ciePc' = "done"
    /\ cieRet' = <<[df |-> EmptyFrame,
                    chosen |-> IF ciePage = "hazard" /\ cieTried # <<>>
                               THEN cieTried[1] ELSE <<>>,
                    tried |-> cieTried]>>
    /\ cieLast' = <<>>
    /\ UNCHANGED <<pageVars, ciePage, cieInfo, cieCands, cieTried, cieIdx, cieSent, cieGot,
                   dirVars, findVars, isoVars, fzOut, bandOut, resOut>>

InitCie ==
    /\ ciePage \in Pages
    /\ cieInfo \in BuiltInfos(ciePage) \cup ExtraInfos
    /\ cieCands = <<>> /\ cieTried = <<>> /\ cieIdx = 0 /\ ciePc = "idle"
    /\ cieRet = <<>> /\ cieSent = <<>> /\ cieGot = <<>> /\ cieLast = <<>>
    /\ DirIdle /\ isoTable = <<>> /\ ratio = <<>>
    /\ fzOut = NoCall /\ bandOut = NoCall /\ resOut = NoCall
    /\ PageIdle

NextCie == LoadCieStart \/ LoadCieQuery \/ LoadCieExhausted

SpecCie == InitCie /\ [][NextCie]_vars

(***************************************************************************)
(* One run of the Location Search page (SpecSearch)                        *)
(***************************************************************************)
\* a fallback that offers every country
CountryFallbackAll(query, a0) == [i \in DOMAIN a0 |-> [a0[i] EXCEPT !.level = "ADM0"]]

\* the national-level fallback: the COUNTRY rows whose normalised name
\* equals the normalised query, else those that contain it, tagged ADM0
CountryFallback(query, a0) ==
    LET exact == SelectSeq(a0, LAMBDA r : Norm(r.ADM0_NAME) = Norm(query))
        nat == IF exact # <<>> THEN exact
               ELSE SelectSeq(a0, LAMBDA r : StrContains(Norm(r.ADM0_NAME), Norm(query)))
    IN  [i \in DOMAIN nat |-> [nat[i] EXCEPT !.level = "ADM0"]]

\* level_order, with fillna(99) for any other level
LevelRank(level) ==
    IF level = "ADM2" THEN 0 ELSE IF level = "ADM1" THEN 1
    ELSE IF level = "ADM0" THEN 2 ELSE 99

\* matches.sort_values(by="level", key=...): the sort is not stable, so rows
\* of one level come out in any order
OptionOrders(matches) ==
    {[i \in DOMAIN matches |-> matches[p[i]]] :
        p \in {q \in Perms(Len(matches)) :
                 \A i \in 1..(Len(matches) - 1) :
                    LevelRank(matches[q[i]].level) <= LevelRank(matches[q[i + 1]].level)}}

\* matches[matches.iloc[:, 0] == sid].iloc[0] for the selected option
PickedRow(options, pick) ==
    options[CHOOSE i \in DOMAIN options :
               /\ options[i].code = options[pick].code
               /\ \A j \in 1..(i - 1) : options[j].code # options[pick].code]

\* what a run did, and the session it leaves
SearchResult(kind, query, found, nat, options, switched, row, cc) ==
    [out |-> [kind |-> kind, query |-> query, found |-> found, nat |-> nat,
              options |-> options, switched |-> switched],
     selected_row |-> row, clicked_continue |-> cc]

\* the page from the selectbox on: without "Continue" the options are shown
\* and a pending clicked_continue switches to the Hazard Levels page; with
\* it the picked row is geocoded, stored as selected_row and, after
\* st.rerun(), the page switches
SearchSelect(query, found, nat, options, pick, proceed, geo, row, cc) ==
    IF ~proceed
    THEN SearchResult("options", query, found, nat, options, cc, row, FALSE)
    ELSE IF geo = "none"
    THEN SearchResult("geo_failed", query, found, nat, options, FALSE, row, TRUE)
    ELSE SearchResult("selected", query, found, nat, options, TRUE,
                      <<PickedRow(options, pick)>>, FALSE)

\* the page once the matches are known: no match at any level stops the run
SearchWithMatches(query, found, nat, matches, proceed, geo, row, cc) ==
    IF matches = <<>>
    THEN {SearchResult("no_match", query, found, nat, <<>>, FALSE, row, cc)}
    ELSE {SearchSelect(query, found, nat, options, pick, proceed, geo, row, cc) :
            options \in OptionOrders(matches), pick \in DOMAIN matches}

\* the page after find_division returned: an empty result is looked up in
\* the COUNTRY table
SearchWithFound(query, found, nat, proceed, geo, row, cc) ==
    SearchWithMatches(query, found, nat, IF found # <<>> THEN found ELSE nat,
                      proceed, geo, row, cc)

\* one run of the page: nothing is searched for an empty query, and an
\* exception of find_division ends the run
SearchPage(query, outcome, a0, proceed, geo, row, cc) ==
    IF query = <<>>
    THEN {SearchResult("no_query", query, <<>>, <<>>, <<>>, cc, row, FALSE)}
    ELSE IF outcome.kind = "raise"
    THEN {SearchResult("raise", query, <<>>, <<>>, <<>>, FALSE, row, cc)}
    ELSE SearchWithFound(query, outcome.rows,
                         IF outcome.rows = <<>> THEN CountryFallback(query, a0) ELSE <<>>,
                         proceed, geo, row, cc)

\* a row stored by an earlier run of the page
EarlierRow == [DistrictRow(9, sAne) EXCEPT !.level = "ADM2"]

LocationSearchRun ==
    /\ lsOut.kind = "idle"
    /\ \E query \in Queries \cup {<<>>}, net \in {"ok", "fail"},
          proceed \in BOOLEAN, geo \in {"ok", "none"} :
          /\ \E res \in SearchPage(query, FindDivisionOutcome(query, net), adm0,
                                   proceed, geo, selectedRow, clickedContinue) :
                /\ lsOut' = res.out
                /\ selectedRow' = res.selected_row
                /\ clickedContinue' = res.clicked_continue
          /\ admCached' = (admCached \/ (query # <<>> /\ net = "ok"))
    /\ UNCHANGED <<adm0, adm1, adm2, findVars, isoVars, fzOut, bandOut, resOut, cieVars,
                   hazVars>>

InitSearch ==
    /\ adm0 \in Tables(CountryRow, {sNE, sAne})
    /\ adm1 \in {<<>>, <<RegionRow(1, sNE)>>}
    /\ adm2 \in Tables(DistrictRow, {sNe, sAne})
    /\ admCached \in BOOLEAN
    /\ fdOut = NoCall /\ cmpOut = NoCall
    /\ isoTable = DirIsoTable /\ ratio = DirSim
    /\ fzOut = NoCall /\ bandOut = NoCall /\ resOut = NoCall
    /\ CieIdle
    /\ selectedRow \in {<<>>, <<EarlierRow>>}
    /\ clickedContinue \in BOOLEAN
    /\ lsOut = NoCall
    /\ hzSession = NoHazardSession /\ hzOut = NoCall

NextSearch == LocationSearchRun

SpecSearch == InitSearch /\ [][NextSearch]_vars

(***************************************************************************)
(* The Hazard Levels page: runs of the page script in one session          *)
(* (SpecHazard)                                                            *)
(***************************************************************************)
\* SCEN_LABELS' keys the model keeps, the default scenario first
Scenarios == {"h_cpol", "o_1p5c"}

\* the hazards ThinkHazard reports for the country of the row
HazardList(row) ==
    IF row.ADM0_NAME = sPortugal THEN <<"River flood", "Wildfire">>
    ELSE <<"Wildfire">>

\* (HAZARD_VAR_MAP.get(sel_hazard) or ["leh", ...])[0]
HazardVariable(hazard) ==
    IF hazard = "River flood" THEN "fldfrc"
    ELSE IF hazard = "Wildfire" THEN "lew"
    ELSE "leh"

\* what a call of load_cie does for the page: the provider answers the first
\* candidate with a series (of data or of zeros only), or no candidate with any
LoadOutcomes == {"data", "zero", "empty"}

\* a series as the provider returns it for a request
Series(row, variable, scenario, outcome) ==
    [row |-> row, variable |-> variable, scenario |-> scenario,
     zero |-> outcome = "zero"]

\* the requests one call of load_cie sends: one to the shape provider unless
\* fetch_cie_shape_codes returns early, one per candidate tried to the
\* time-series provider
LoadRequests(info, outcome) ==
    [shape |-> IF Truthy(info.country_iso3) THEN 1 ELSE 0,
     band |-> IF outcome = "empty" THEN Len(Candidates(info, <<>>, "hazard")) ELSE 1]

NoRequests == [shape |-> 0, band |-> 0]

AddRequests(a, b) == [shape |-> a.shape + b.shape, band |-> a.band + b.band]

\* the hazard button's handler: the hazard is stored and the cached keys popped
AfterClick(sess, click) ==
    IF click = "none" THEN sess
    ELSE [hazard |-> click, scenario |-> "unset", prev |-> "unset", data |-> <<>>]

\* if not sel_hazard or sel_hazard not in hazard_list: the first of the list
AfterHazard(sess, hazard_list) ==
    IF sess.hazard \in Range(hazard_list) THEN sess
    ELSE [sess EXCEPT !.hazard = hazard_list[1]]

\* a scenario change that leaves the cached series in place
ScenarioChangeIgnored(scenario, prev_scenario) == FALSE

\* if scenario != prev_scenario
ScenarioChanged(scenario, prev_scenario) == scenario # prev_scenario

\* st.session_state.get("climate_scenario", "h_cpol")
StoredScenario(sess) == IF sess.scenario = "unset" THEN "h_cpol" ELSE sess.scenario

\* st.session_state.get("_prev_climate_scenario", scenario)
PrevScenario(sess) == IF sess.prev = "unset" THEN StoredScenario(sess) ELSE sess.prev

\* the scenario selectbox and the keys written after it
AfterScenario(sess, scenario) ==
    [sess EXCEPT !.scenario = scenario, !.prev = scenario,
                 !.data = IF ScenarioChanged(scenario, PrevScenario(sess)) THEN <<>> ELSE @]

\* the end of a run: a warning and st.stop() without a series, the chart
\* otherwise; before is the series the session held when the run began
HazardShow(sess, before, row, scenario, info, df, loads, requests) ==
    [session |-> sess,
     out |-> [kind |-> IF df = <<>> THEN "no_data" ELSE "shown",
              row |-> row, scenario |-> scenario, variable |-> HazardVariable(sess.hazard),
              info |-> <<info>>, before |-> before, df |-> df, loads |-> loads, requests |-> requests]]

\* if df.empty or is_all_zero(df): load_cie once more, the answer cached and
\* used when it is not empty
HazardRetry(sess, before, row, scenario, info, df, second, loads, requests) ==
    IF df = <<>> \/ df[1].zero
    THEN HazardShow(IF second = "empty" THEN sess
                    ELSE [sess EXCEPT !.data =
                            <<Series(row, HazardVariable(sess.hazard), scenario, second)>>],
                    before, row, scenario, info,
                    IF second = "empty" THEN df
                    ELSE <<Series(row, HazardVariable(sess.hazard), scenario, second)>>,
                    loads + 1, AddRequests(requests, LoadRequests(info, second)))
    ELSE HazardShow(sess, before, row, scenario, info, df, loads, requests)

\* raw = st.session_state.get("climate_data"): load_cie when there is none,
\* the answer cached when it is not empty; the cached series otherwise
HazardLoad(sess, before, row, scenario, info, first, second) ==
    IF sess.data = <<>>
    THEN HazardRetry(IF first = "empty" THEN sess
                     ELSE [sess EXCEPT !.data =
                             <<Series(row, HazardVariable(sess.hazard), scenario, first)>>],
                     before, row, scenario, info,
                     IF first = "empty" THEN <<>>
                     ELSE <<Series(row, HazardVariable(sess.hazard), scenario, first)>>,
                     second, 1, LoadRequests(info, first))
    ELSE HazardRetry(sess, before, row, scenario, info, sess.data, second, 0, NoRequests)

\* one run of the page script from the hazard buttons on
HazardPage(sess, row, click, scenario, info, first, second) ==
    HazardLoad(AfterScenario(AfterHazard(AfterClick(sess, click), HazardList(row)),
                             scenario),
               sess.data, row, scenario, info, first, second)

\* the rows Location Search stores for the page: a district of Portugal and a
\* district of a country the COUNTRY table does not know
HazardRows ==
    {Row("ADM2", 7, sLisboa, <<"L","x">>, sPortugal, Absent, Absent),
     Row("ADM2", 8, sNE, Absent, sAtlantis, Absent, Absent)}

\* a run that stops before the hazard buttons: no ThinkHazard report
HazardStopped ==
    /\ selectedRow # <<>>
    /\ hzOut' = [kind |-> "stopped", before |-> hzSession.data]
    /\ UNCHANGED <<hzSession, searchVars, dirVars, findVars, isoVars, fzOut, bandOut,
                   resOut, cieVars>>

\* a run which reaches the projections: the user has clicked a hazard button
\* or none, the scenario selectbox returns its choice
HazardPageRun ==
    /\ selectedRow # <<>>
    /\ \E click \in {"none"} \cup Range(HazardList(selectedRow[1])),
          scenario \in Scenarios, first \in LoadOutcomes, second \in LoadOutcomes :
          \E run \in {HazardPage(hzSession, selectedRow[1], click, scenario,
                                 BuildRegionInfo(selectedRow[1], "hazard", adm0,
                                                 isoTable, ratio),
                                 first, second)} :
             /\ hzSession' = run.session
             /\ hzOut' = run.out
    /\ UNCHANGED <<searchVars, dirVars, findVars, isoVars, fzOut, bandOut, resOut, cieVars>>

\* the button "Clear hazard & projection selection" at the end of a run
\* that showed a series: the page's keys are popped and st.rerun() runs the
\* script again, up to the ThinkHazard report or on to the projections
HazardClear ==
    /\ selectedRow # <<>>
    /\ hzOut.kind = "shown"
    /\ \/ /\ hzSession' = NoHazardSession
          /\ hzOut' = [kind |-> "stopped", before |-> <<>>]
       \/ \E scenario \in Scenarios, first \in LoadOutcomes, second \in LoadOutcomes :
             \E run \in {HazardPage(NoHazardSession, selectedRow[1], "none", scenario,
                                    BuildRegionInfo(selectedRow[1], "hazard", adm0,
                                                    isoTable, ratio),
                                    first, second)} :
                /\ hzSession' = run.session
                /\ hzOut' = run.out
    /\ UNCHANGED <<searchVars, dirVars, findVars, isoVars, fzOut, bandOut, resOut, cieVars>>

\* Location Search stores another row and switches back to the page
HazardNewLocation ==
    /\ \E r \in HazardRows : r # selectedRow[1] /\ selectedRow' = <<r>>
    /\ UNCHANGED <<clickedContinue, lsOut, hazVars, dirVars, findVars, isoVars, fzOut,
                   bandOut, resOut, cieVars>>

InitHazard ==
    /\ adm0 = WorldCountries /\ adm1 = <<>> /\ adm2 = <<>> /\ admCached = TRUE
    /\ fdOut = NoCall /\ cmpOut = NoCall
    /\ isoTable = WorldIsoTable
    /\ ratio \in {[t \in Texts(WorldIsoTable) |-> s] : s \in ResolveScores}
    /\ resOut = NoCall /\ fzOut = NoCall /\ bandOut = NoCall /\ CieIdle
    /\ selectedRow \in {<<r>> : r \in HazardRows}
    /\ clickedContinue = FALSE /\ lsOut = NoCall
    /\ hzSession = NoHazardSession /\ hzOut = NoCall

NextHazard == HazardStopped \/ HazardPageRun \/ HazardClear \/ HazardNewLocation

SpecHazard == InitHazard /\ [][NextHazard]_vars

(***************************************************************************)
(* Properties of the directory workflows (SpecFind)                        *)
(***************************************************************************)
\* the query of the last find_division call equals, after normalisation,
\* the normalised name of some row of the table
MatchesIn(table, level) ==
    \E i \in DOMAIN table : Norm(NameCol(table[i], level)) = Norm(fdOut.query)

\* C1: when the normalised query equals the normalised name of at least one
\* district (ADM2) row, find_division returns a non-empty result all of
\* whose rows are district rows with that normalised name; no region or
\* country row is in it, whatever the regions and countries are called.
C1_DistrictRowsOnly ==
    (fdOut.kind = "rows" /\ MatchesIn(adm2, "ADM2")) =>
        /\ fdOut.rows # <<>>
        /\ \A i \in DOMAIN fdOut.rows :
              /\ fdOut.rows[i].level = "ADM2"
              /\ fdOut.rows[i].ADM2_NAME # Absent
              /\ Norm(fdOut.rows[i].ADM2_NAME) = Norm(fdOut.query)
              /\ \E j \in DOMAIN adm2 : fdOut.rows[i] = [adm2[j] EXCEPT !.level = "ADM2"]

\* a district, a region and a country share the normalised name queried
C1_Witness ==
    /\ fdOut.kind = "rows"
    /\ MatchesIn(adm2, "ADM2") /\ MatchesIn(adm1, "ADM1") /\ MatchesIn(adm0, "ADM0")
    /\ fdOut.rows # <<>>

\* C5: a failed load of the administrative directory is never reported by
\* a workflow as an empty match or as "could not resolve".
C5_LoadFailureDistinct ==
    (cmpOut.kind # "idle" /\ fdOut.kind = "raise") =>
        (cmpOut.kind # "none" /\ cmpOut.report # "could_not_resolve")

\* the table of a level
TableOf(level) ==
    IF level = "ADM2" THEN adm2 ELSE IF level = "ADM1" THEN adm1 ELSE adm0

\* the rows of one (pass, level) pair for the last query, tagged with the
\* level: the names equal to the query in the exact pass; in the other
\* pass the names that contain the query as a substring, or, with pattern,
\* the names the query matches as a pattern
PairRows(exact, level, pattern) ==
    LET hit == SelectSeq(TableOf(level),
                         LAMBDA r :
                            IF exact THEN Norm(NameCol(r, level)) = Norm(fdOut.query)
                            ELSE IF pattern
                                 THEN StrContains(Norm(NameCol(r, level)), Norm(fdOut.query))
                                 ELSE Contains(Norm(NameCol(r, level)), Norm(fdOut.query)))
    IN  [i \in DOMAIN hit |-> [hit[i] EXCEPT !.level = level]]

\* exact-DISTRICT, exact-REGION, exact-COUNTRY, then the second pass
PairOrder ==
    << <<TRUE, "ADM2">>, <<TRUE, "ADM1">>, <<TRUE, "ADM0">>,
       <<FALSE, "ADM2">>, <<FALSE, "ADM1">>, <<FALSE, "ADM0">> >>

\* the rows of the first pair of the order that has any, else no rows
RECURSIVE FirstPairRows(_, _)
FirstPairRows(pairs, pattern) ==
    IF pairs = <<>> THEN <<>>
    ELSE IF PairRows(Head(pairs)[1], Head(pairs)[2], pattern) # <<>>
         THEN PairRows(Head(pairs)[1], Head(pairs)[2], pattern)
         ELSE FirstPairRows(Tail(pairs), pattern)

\* C17: find_division returns exactly the rows of the first (pass, level)
\* pair that has any hit, in the order exact-DISTRICT, exact-REGION,
\* exact-COUNTRY, substring-DISTRICT, substring-REGION, substring-COUNTRY,
\* and so never mixes rows of two levels or of the two passes.
C17_FirstPairWins ==
    fdOut.kind = "rows" => fdOut.rows = FirstPairRows(PairOrder, FALSE)

\* the same with the second pass read as a pattern search
FirstPatternPairWins ==
    fdOut.kind = "rows" => fdOut.rows = FirstPairRows(PairOrder, TRUE)

\* the same for queries without a pattern character
FirstPairWinsForPlainQueries ==
    (fdOut.kind = "rows" /\ "." \notin Range(fdOut.query)) =>
        fdOut.rows = FirstPairRows(PairOrder, FALSE)

(***************************************************************************)
(* Properties of fuzzy_match_region (SpecFuzzy)                            *)
(***************************************************************************)
\* the entries of the country of the last call
CallEntries == FilterCountryEntries(fzOut.iso2, isoTable)

\* raw similarity of a subdivision: its name and translations against the query
RawScore(e) == ratio[IsoNorm(AliasOf(e.code, CallEntries))]

\* the similarity after the keyword bias
BiasedScore(e) == RawScore(e) + Bonus(Strip(AliasOf(e.code, CallEntries)))

\* the call returned the fallback ranking, not a confident result
IsFallback ==
    \A i \in DOMAIN CallEntries : RawScore(CallEntries[i]) < fzOut.threshold

ResultCodes == {fzOut.result[i].code : i \in DOMAIN fzOut.result}

\* C9: a subdivision is in the confident (non-fallback) result exactly when
\* its biased score is at least the threshold.
C9_BiasedScoreDecides ==
    (fzOut.kind = "done" /\ IsoNorm(fzOut.name) # <<>>) =>
        \A i \in DOMAIN CallEntries :
            (~IsFallback /\ CallEntries[i].code \in ResultCodes)
                <=> BiasedScore(CallEntries[i]) >= fzOut.threshold

\* the result is the k entries of the country with the highest scores on
\* their primary name, best first, ties in table order
IsTopByName(k) ==
    /\ Len(fzOut.result) = k
    /\ \E pos \in [1..k -> DOMAIN CallEntries] :
          /\ \A i \in 1..k :
                /\ fzOut.result[i].code = CallEntries[pos[i]].code
                /\ fzOut.result[i].name = CallEntries[pos[i]].name
                /\ fzOut.result[i].score = ratio[IsoNorm(CallEntries[pos[i]].name)]
          /\ \A i \in 1..(k - 1) :
                \/ fzOut.result[i].score > fzOut.result[i + 1].score
                \/ fzOut.result[i].score = fzOut.result[i + 1].score /\ pos[i] < pos[i + 1]
          /\ \A j \in DOMAIN CallEntries :
                (\A i \in 1..k : pos[i] # j) =>
                    /\ k > 0
                    /\ \/ ratio[IsoNorm(CallEntries[j].name)] < fzOut.result[k].score
                       \/ /\ ratio[IsoNorm(CallEntries[j].name)] = fzOut.result[k].score
                          /\ pos[k] < j

Min3(n) == IF n < 3 THEN n ELSE 3

EntryPos(code) ==
    CHOOSE i \in DOMAIN CallEntries :
        /\ CallEntries[i].code = code
        /\ \A j \in 1..(i - 1) : CallEntries[j].code # code

\* the last call returned a confident result
IsConfident ==
    /\ fzOut.kind = "done" /\ fzOut.result # <<>>
    /\ ~IsFallback

\* C20: the confident result of fuzzy_match_region carries the biased
\* scores and is ordered by them, highest first; two candidates with the
\* same biased score are in the order in which their entries were iterated.
C20_StableDescending ==
    IsConfident =>
        /\ \A i \in DOMAIN fzOut.result :
              /\ fzOut.result[i].code \in {CallEntries[k].code : k \in DOMAIN CallEntries}
              /\ fzOut.result[i].score
                    = BiasedScore(CallEntries[EntryPos(fzOut.result[i].code)])
        /\ \A i, j \in DOMAIN fzOut.result :
              i < j =>
                \/ fzOut.result[i].score > fzOut.result[j].score
                \/ /\ fzOut.result[i].score = fzOut.result[j].score
                   /\ EntryPos(fzOut.result[i].code) < EntryPos(fzOut.result[j].code)

\* C20 witness: a confident result with two candidates of the same biased
\* score and different raw scores, and a third of a lower score
C20_Witness ==
    /\ IsConfident
    /\ \E i, j, k \in DOMAIN fzOut.result :
          /\ i < j
          /\ fzOut.result[i].score = fzOut.result[j].score
          /\ RawScore(CallEntries[EntryPos(fzOut.result[i].code)])
                # RawScore(CallEntries[EntryPos(fzOut.result[j].code)])
          /\ fzOut.result[k].score < fzOut.result[j].score

MatchedCode ==
    LET r == resOut.row
        iso2 == Adm0Iso2ByIso3(ResolveIso3(r, resOut.page, adm0), adm0)
        cands == IF BestName(r) # <<>>
                 THEN FuzzyMatchRegion(BestName(r), iso2, ResolveThreshold, isoTable, ratio)
                 ELSE <<>>
    IN  IF cands = <<>> THEN <<>> ELSE cands[1].code

ResolvedIso2 == Adm0Iso2ByIso3(ResolveIso3(resOut.row, resOut.page, adm0), adm0)

\* code is prefix, "-", and one or more digits
HasNumericSuffix(code, prefix) ==
    /\ IsStr(prefix)
    /\ StartsWith(code, prefix \o <<"-">>)
    /\ IsDigitStr(SubSeq(code, Len(prefix) + 2, Len(code)))

HasLetter(s) == \E i \in DOMAIN s : IsAlpha(s[i])

FirstTwoLetters(s) ==
    LET letters == SelectSeq(s, IsAlpha)
    IN  Upper(SubSeq(letters, 1, Max2(0, IF Len(letters) > 2 THEN 2 ELSE Len(letters))))

\* C4: when the fuzzy-matched ISO code is the country prefix followed by
\* digits only and the match target has a letter, the region code returned
\* by resolve_cie_region_code is ISO2 + "." + the first two letters of the
\* match target in upper case, and so does not carry the numeric suffix.
C4_NumericSuffixReplaced ==
    (/\ resOut.kind \in {"resolved", "built"}
     /\ Truthy(resOut.res.iso3)
     /\ HasNumericSuffix(MatchedCode, ResolvedIso2)
     /\ HasLetter(BestName(resOut.row)))
    => /\ resOut.res.code = ResolvedIso2 \o <<".">> \o FirstTwoLetters(BestName(resOut.row))
       /\ ~IsDigitStr(SubSeq(resOut.res.code, Len(ResolvedIso2) + 2, Len(resOut.res.code)))

\* C4 witness: the district "Lisboa" was matched to PT-11 and the call
\* returned PT.LI
C4_Witness ==
    /\ resOut.kind = "resolved"
    /\ MatchedCode = <<"P","T","-","1","1">>
    /\ BestName(resOut.row) = sLisboa
    /\ resOut.res.code = <<"P","T",".","L","I">>

\* the row's own ISO3 value is not used and the COUNTRY table has no row
\* whose name equals the row's country name, case ignored
NoIso3Source ==
    /\ ~RowHasIso3(resOut.row, resOut.page)
    /\ \A i \in DOMAIN adm0 :
          ~(IsStr(adm0[i].ADM0_NAME)
            /\ Lower(adm0[i].ADM0_NAME) = Lower(PyStr(GetOrEmpty(resOut.row.ADM0_NAME))))

\* C11: on both pages, when the row carries no ISO3 code and the country
\* name is not in the COUNTRY table, resolve_cie_region_code returns no
\* country code, no region code and an error value.
C11_Iso3Undetermined ==
    (resOut.kind \in {"resolved", "built"} /\ NoIso3Source)
    => /\ resOut.res.iso3 = Absent
       /\ resOut.res.code = Absent
       /\ resOut.res.err = "iso3_undetermined"

\* the fuzzy match of a finished call gave no candidate
NoFuzzyCandidate ==
    LET r == resOut.row
    IN  \/ BestName(r) = <<>>
        \/ FuzzyMatchRegion(BestName(r), ResolvedIso2, ResolveThreshold, isoTable, ratio) = <<>>

\* C12: for a row whose ISO3 code is known and for which the fuzzy match
\* gives no candidate, resolve_cie_region_code returns no error and the
\* country's ISO2 code + "." + the first two letters of the match target in
\* upper case, or the ISO3 code when the match target has no letter.
C12_SynthesizedCode ==
    (/\ resOut.kind \in {"resolved", "built"}
     /\ Truthy(resOut.res.iso3)
     /\ NoFuzzyCandidate)
    => /\ resOut.res.err = "none"
       /\ IF HasLetter(BestName(resOut.row))
          THEN /\ IsStr(ResolvedIso2)
               /\ resOut.res.code
                    = ResolvedIso2 \o <<".">> \o FirstTwoLetters(BestName(resOut.row))
          ELSE resOut.res.code = resOut.res.iso3

\* the C12 case with a country whose ISO2 code the COUNTRY table holds
C12_KnownIso2 ==
    (/\ resOut.kind \in {"resolved", "built"}
     /\ Truthy(resOut.res.iso3)
     /\ IsStr(ResolvedIso2)
     /\ NoFuzzyCandidate)
    => /\ resOut.res.err = "none"
       /\ IF HasLetter(BestName(resOut.row))
          THEN resOut.res.code
                 = ResolvedIso2 \o <<".">> \o FirstTwoLetters(BestName(resOut.row))
          ELSE resOut.res.code = resOut.res.iso3

\* C19: when the ISO code of the top fuzzy candidate has a suffix that is
\* not purely numeric, or a purely numeric suffix while the match target
\* has no letter, the region code resolve_cie_region_code returns is that
\* ISO code in upper case with every hyphen replaced by a dot.
C19_MatchedCodeKept ==
    (/\ resOut.kind \in {"resolved", "built"}
     /\ Truthy(resOut.res.iso3)
     /\ MatchedCode # <<>>
     /\ (~HasNumericSuffix(MatchedCode, ResolvedIso2) \/ ~HasLetter(BestName(resOut.row))))
    => resOut.res.code = ReplaceAll(Upper(MatchedCode), <<"-">>, <<".">>)

\* C19 witness: the district "Lisboa" was matched to PT-LX and the call
\* returned PT.LX
C19_Witness ==
    /\ resOut.kind = "resolved"
    /\ MatchedCode = <<"P","T","-","L","X">>
    /\ BestName(resOut.row) = sLisboa
    /\ resOut.res.code = <<"P","T",".","L","X">>

\* the other case of C19: a match target without a letter was matched to a
\* code with a numeric suffix, which the returned code keeps
NumericSuffixKeptWithoutLetter ==
    /\ resOut.kind = "resolved"
    /\ HasNumericSuffix(MatchedCode, ResolvedIso2)
    /\ ~HasLetter(BestName(resOut.row))
    /\ resOut.res.code = ReplaceAll(MatchedCode, <<"-">>, <<".">>)

\* the fuzzy match of a finished call gave a candidate at or above the
\* threshold or from the fallback ranking
FoundByFuzzyMatch == resOut.kind = "built" /\ Truthy(resOut.res.iso3) /\ MatchedCode # <<>>

\* C23: the code field of the RegionInfo build_region_info produces is the
\* region code resolve_cie_region_code returned for the row (no code on
\* either side counts as equal); a code found by the fuzzy match is not
\* replaced by an abbreviation of the row's region or district name.
C23_CodeAsResolved ==
    resOut.kind = "built" =>
        \/ resOut.info[1].code = resOut.res.code
        \/ ~Truthy(resOut.info[1].code) /\ ~Truthy(resOut.res.code)

\* C23 for the codes found by the fuzzy match alone
C23_FuzzyCodeKept ==
    (FoundByFuzzyMatch /\ IsStr(ResolvedIso2)) => resOut.info[1].code = resOut.res.code

\* the codes build_region_info changes are exactly those it passes to
\* _normalize_region_code: the codes that are not the ISO3 code
CodeChangedOnlyByNormalize ==
    (resOut.kind = "built" /\ Truthy(resOut.res.code)
        /\ resOut.info[1].code # resOut.res.code)
    => /\ resOut.res.code # resOut.res.iso3
       /\ resOut.info[1].code
            = NormalizeRegionCode(ResolvedIso2, resOut.res.code,
                                  PyOr(PyOr(resOut.row.ADM1_NAME, resOut.row.ADM2_NAME), <<>>))

\* code is the ISO3 code, or the ISO2 code, a dot and a non-empty suffix
IsRegionCodeOf(code, iso3, iso2) ==
    \/ code = iso3
    \/ /\ IsStr(iso2) /\ iso2 # <<>>
       /\ StartsWith(code, iso2 \o <<".">>)
       /\ Len(code) > Len(iso2) + 1

\* C24: every non-empty region code in a RegionInfo build_region_info
\* produces is the row's ISO3 code or the row's ISO2 code, a dot and a
\* non-empty suffix, also when the COUNTRY table has no ISO2 code for the
\* row's ISO3 code.
C24_CodeForm ==
    (resOut.kind = "built" /\ Truthy(resOut.info[1].code))
    => IsRegionCodeOf(resOut.info[1].code, resOut.res.iso3, ResolvedIso2)

\* C24 for the rows whose ISO2 code the COUNTRY table holds
CodeFormWithKnownIso2 ==
    (resOut.kind = "built" /\ Truthy(resOut.info[1].code) /\ IsStr(ResolvedIso2))
    => IsRegionCodeOf(resOut.info[1].code, resOut.res.iso3, ResolvedIso2)

(***************************************************************************)
(* Properties of load_cie (SpecCie)                                        *)
(***************************************************************************)
NoDuplicates(s) == \A i, j \in DOMAIN s : i # j => s[i] # s[j]

Usable(df) == ~IsEmpty(df) /\ ~IsAllZero(df)

\* C2: load_cie never returns a non-empty series whose median is
\* identically zero while a later candidate of the cascade is untried.
C2_AllZeroSkipped ==
    (/\ ciePc = "done"
     /\ ~IsEmpty(cieRet[1].df)
     /\ IsAllZero(cieRet[1].df))
    => Len(cieRet[1].tried) = Len(cieCands)

\* C3: on both pages the tried list load_cie returns contains no string
\* twice and lists the candidates in the order the cascade generated them.
C3_TriedDistinctInOrder ==
    ciePc = "done"
    => /\ NoDuplicates(cieRet[1].tried)
       /\ Len(cieRet[1].tried) <= Len(cieCands)
       /\ \A i \in DOMAIN cieRet[1].tried :
             cieRet[1].tried[i] = TriedEntry(cieCands[i], ciePage)

\* C6: when every candidate of the cascade has been queried and none gave
\* usable data, load_cie returns an empty series and a tried list that is
\* the whole cascade, each candidate once, in cascade order.
C6_ExhaustedCascade ==
    (/\ ciePc = "done"
     /\ Len(cieRet[1].tried) = Len(cieCands)
     /\ ~Usable(cieRet[1].df))
    => /\ IsEmpty(cieRet[1].df)
       /\ NoDuplicates(cieRet[1].tried)
       /\ \A i \in DOMAIN cieCands :
             cieRet[1].tried[i] = TriedEntry(cieCands[i], ciePage)

\* a transport failure, HTTP error, timeout or body that is not JSON
IsFailure(resp) == resp.shape = "error"

\* C7: no failure of a candidate's query leaves load_cie as an exception,
\* and the step that meets a transport failure, HTTP error, timeout or
\* unparseable body records the candidate as tried and moves the loop on to
\* the next candidate.
C7_FailureContinues ==
    /\ [](ciePc # "raised")
    /\ [][(ciePc = "loop" /\ cieIdx <= Len(cieCands)
           /\ cieLast' # <<>> /\ IsFailure(cieLast'[1]))
          => (/\ ciePc' = "loop"
              /\ cieIdx' = cieIdx + 1
              /\ cieRet' = <<>>
              /\ cieTried' = Append(cieTried, TriedEntry(cieCands[cieIdx], ciePage)))]_vars

\* C7 witness: the query for the first candidate failed in transport and the
\* loop stands at the second candidate
C7_Witness ==
    /\ ciePc = "loop"
    /\ cieLast # <<>> /\ IsFailure(cieLast[1])
    /\ cieIdx = 2 /\ Len(cieCands) >= 2 /\ Len(cieTried) = 1

\* the position of the first occurrence of x in s, 0 if there is none
FirstPos(s, x) ==
    IF \E i \in DOMAIN s : s[i] = x
    THEN CHOOSE i \in DOMAIN s : s[i] = x /\ \A j \in 1..(i - 1) : s[j] # x
    ELSE 0

\* a RegionInfo with ISO2 and ISO3 codes that are non-empty strings and a
\* name with a letter
HasCodesAndName(info) ==
    /\ IsStr(info.country) /\ info.country # <<>>
    /\ IsStr(info.country_iso3) /\ info.country_iso3 # <<>>
    /\ IsStr(info.name) /\ HasLetter(info.name)

ReturnedSeries == ciePc = "done" /\ ~IsEmpty(cieRet[1].df)

\* the tried list ends with the chosen candidate and is a prefix of the
\* cascade; every candidate before the chosen one was queried once, with an
\* empty result; the chosen one got the last query
ChosenEndsTried ==
    LET ret == cieRet[1]
        n == Len(ret.tried)
    IN  /\ n >= 1 /\ n <= Len(cieCands)
        /\ ret.chosen = ret.tried[n]
        /\ \A i \in 1..n : ret.tried[i] = cieCands[i]
        /\ NoDuplicates(ret.tried)
        /\ Len(cieSent) = n /\ Len(cieGot) = n
        /\ \A i \in 1..(n - 1) : cieGot[i]
        /\ ~cieGot[n]

\* C21: whenever load_cie returns a non-empty series, the chosen candidate
\* is the last element of tried, tried is a prefix of the cascade, every
\* candidate before the chosen one was queried exactly once and gave an
\* empty result, and no candidate after the chosen one is queried.
C21_ChosenIsLastTried == ReturnedSeries => ChosenEndsTried

\* the same on the Hazard Levels page alone
ChosenIsLastTriedOnHazard ==
    (ReturnedSeries /\ ciePage = "hazard") => ChosenEndsTried

\* the same on the Comparison Tool for a cascade of distinct strings
ChosenIsLastTriedOfDistinctStrings ==
    (/\ ReturnedSeries /\ ciePage = "compare"
     /\ NoDuplicates(cieCands)
     /\ \A i \in DOMAIN cieCands : IsStr(cieCands[i]))
    => ChosenEndsTried

\* C22: within one load_cie call the region values sent to the time-series
\* provider for distinct candidates, as get_cie_band normalises them
\* (hyphen to dot, upper case, trimmed), are pairwise different.
C22_DistinctRequests ==
    \A i, j \in DOMAIN cieSent :
        (i # j /\ cieCands[i] # cieCands[j]) => cieSent[i] # cieSent[j]

(***************************************************************************)
(* Properties of the Location Search page (SpecSearch)                     *)
(***************************************************************************)
\* the last run called find_division and it returned no row at any level
FindReturnedEmpty ==
    /\ lsOut.kind \in {"no_match", "options", "geo_failed", "selected"}
    /\ lsOut.found = <<>>

\* C14: when find_division returns empty at all three levels, the fallback
\* against the COUNTRY table finds nothing either, the run ends with "no
\* match", and the run stores no selected row in the session.
C14_FallbackFindsNothing ==
    /\ [](FindReturnedEmpty => (lsOut.nat = <<>> /\ lsOut.kind = "no_match"))
    /\ [][(lsOut'.kind # "idle" /\ lsOut'.found = <<>>
           /\ lsOut'.kind \notin {"no_query", "raise"})
          => (selectedRow' = selectedRow /\ ~lsOut'.switched)]_vars

\* C14 witness: a query that no level matches, with a COUNTRY table that has
\* rows and an earlier selection in the session
C14_Witness ==
    /\ lsOut.kind = "no_match"
    /\ lsOut.query = <<"z","z">>
    /\ Len(adm0) = MaxRows
    /\ selectedRow = <<EarlierRow>>

\* the Location Search page offers every row find_division returned
SearchOffersAllRows ==
    (lsOut.kind \in {"options", "geo_failed", "selected"} /\ lsOut.found # <<>>)
    => /\ Len(lsOut.options) = Len(lsOut.found)
       /\ \A i \in DOMAIN lsOut.found :
             \E j \in DOMAIN lsOut.options : lsOut.options[j] = lsOut.found[i]

\* C15: when find_division returns several rows, the workflow that consumes
\* them offers the rows for selection and does not resolve the query to one
\* of them on its own; stated for the Comparison Tool's resolve_location.
C15_AllRowsOffered ==
    (/\ cmpOut.kind # "idle"
     /\ fdOut.kind = "rows"
     /\ Len(fdOut.rows) >= 2)
    => cmpOut.kind # "info"

(***************************************************************************)
(* Properties of the Hazard Levels page (SpecHazard)                       *)
(***************************************************************************)
\* the last run reached the projections with a cached series that was
\* fetched for another scenario than the one the selectbox returned
ObservedScenarioChange ==
    /\ hzOut.kind \in {"shown", "no_data"}
    /\ hzOut.before # <<>>
    /\ hzOut.before[1].scenario # hzOut.scenario

\* C16: on the Hazard Levels page the run that observes a change of the
\* scenario discards the cached series and fetches again for the new
\* scenario: the series displayed, and the series the session keeps, is
\* never one fetched for another scenario than the selected one
C16_SeriesOfSelectedScenario ==
    /\ ObservedScenarioChange =>
          /\ hzOut.loads >= 1
          /\ hzSession.data # hzOut.before
    /\ hzOut.kind = "shown" => hzOut.df[1].scenario = hzOut.scenario
    /\ hzSession.data # <<>> => hzSession.data[1].scenario = hzSession.scenario

\* C16 witness: a series cached for one scenario, the other scenario
\* selected, and a series of the selected scenario on display
C16_Witness ==
    /\ ObservedScenarioChange
    /\ hzOut.kind = "shown"
    /\ hzOut.df[1].scenario = hzOut.scenario

\* the last run reached the projections for a row whose resolution ends
\* with the ISO3 code undetermined
RanUndetermined ==
    /\ hzOut.kind \in {"shown", "no_data"}
    /\ ResolveCieRegionCode(hzOut.row, "hazard", adm0, isoTable, ratio).err
          = "iso3_undetermined"

\* C18: when the resolution of the row ends with the ISO3 code
\* undetermined the page stops: load_cie is not called, so no candidate
\* cascade is built and no request goes to the time-series provider or to
\* the shape provider.
C18_UndeterminedStops ==
    RanUndetermined =>
        /\ hzOut.loads = 0
        /\ hzOut.requests = NoRequests

\* with the ISO3 code undetermined the page sends no request to the shape
\* provider
UndeterminedAsksNoShapes == RanUndetermined => hzOut.requests.shape = 0

\* C25: the series the Hazard Levels page shows was fetched for the
\* location the run read from the session's selected_row; a series cached
\* for the location selected before is never shown for a new one.
C25_SeriesOfSelectedRow ==
    hzOut.kind = "shown" => hzOut.df[1].row = hzOut.row

\* a run that fetched shows a series of its own row
FetchedSeriesOfSelectedRow ==
    (hzOut.kind = "shown" /\ hzOut.before = <<>>) => hzOut.df[1].row = hzOut.row

====
